---- MODULE Spec2Model ----
(***************************************************************************)
(* Model of src/src/components/todo-list.component.tsx: the exported       *)
(* async function fetchTodos and the TodoList component that owns five     *)
(* useState slots, a mount effect and a filter effect.                     *)
(*                                                                         *)
(* fetchTodos is split at its two awaits.  State updates issued in one     *)
(* synchronous run are batched by React and applied by the next render, so *)
(* `state` holds the hook values (what the setters have stored) and `view` *)
(* the values the last committed render read.  Passive effects (useEffect) *)
(* of a commit run after it and are flushed before the next render.        *)
(* A todo's title is only printed, never read by the logic, and is left    *)
(* out of the records.                                                     *)
(***************************************************************************)
EXTENDS Integers, Sequences, FiniteSets, TLC

\* ---- bounds ----------------------------------------------------------
MaxLen == 2     \* longest array the source returns
MaxId == 2      \* todo ids are 1..MaxId
MaxSelect == 1  \* recorded onSelectTodo calls

\* ---- values ----------------------------------------------------------
\* `string | null` of the error slot: null is a value that is no message.
NULL == "<null>"

\* A decoded JSON value: an array of todos, or some other well-formed value.
Arr(items) == [isArray |-> TRUE, items |-> items]
NotArray == [isArray |-> FALSE, items |-> <<>>]

TodoPool == [id : 1..MaxId, completed : BOOLEAN]

RECURSIVE SeqsUpTo(_, _)
SeqsUpTo(S, n) ==
  IF n = 0 THEN {<<>>}
  ELSE LET shorter == SeqsUpTo(S, n - 1)
       IN shorter \cup {Append(s, x) : s \in {t \in shorter : Len(t) = n - 1}, x \in S}

TodoArrays == {Arr(s) : s \in SeqsUpTo(TodoPool, MaxLen)}
JsonValues == TodoArrays \cup {NotArray}

\* A thrown / rejected value: an Error with a message, or something else.
Err(msg) == [isError |-> TRUE, message |-> msg]
NonError == [isError |-> FALSE, message |-> ""]
Thrown == {Err("Failed to fetch"), Err(""), NonError}

\* What response.json() settles with: a value, or the SyntaxError of a body
\* that is no JSON text.
SyntaxErrors == {Err("Unexpected token < in JSON at position 0")}
Bodies ==
  [parses : {TRUE}, value : JsonValues, thrown : {NonError}]
    \cup [parses : {FALSE}, value : {NotArray}, thrown : SyntaxErrors]

Statuses == {200, 404, 500}

\* What the fetch() promise settles with.
NoBody == [parses |-> FALSE, value |-> NotArray, thrown |-> NonError]
FetchOutcomes ==
  [kind : {"rejected"}, thrown : Thrown, status : {0}, body : {NoBody}]
    \cup [kind : {"response"}, thrown : {NonError}, status : Statuses, body : Bodies]
Pending == [kind |-> "pending", thrown |-> NonError, status |-> 0, body |-> NoBody]

\* Response.ok: status in the range 200-299.
ok(response) == response.status >= 200 /\ response.status <= 299

Filters == {"All", "Open", "Completed"}

VARIABLES
  state,        \* the five useState slots, as the setters left them
  view,         \* the slots as read by the last committed render
  effects,      \* passive effects of the last commit that have not run yet
  alive,        \* "mounted", "unmounted" or "crashed" (a render threw)
  pc,           \* position of the fetchTodos invocation
  net,          \* what fetch() settled with (the `response` local)
  bodyRead,     \* response.json() has been called
  log,          \* setter calls made by fetchTodos, in order
  recomputed,   \* inputs and output of the last run of the filter effect
  selectCalls   \* arguments of the onSelectTodo calls made so far

vars == <<state, view, effects, alive, pc, net, bodyRead, log, recomputed, selectCalls>>

\* ---- setter calls ----------------------------------------------------
Call(setter, flag, text, data) ==
  [setter |-> setter, flag |-> flag, text |-> text, data |-> data]
setTodos(data) == Call("setTodos", FALSE, NULL, data)
setFilteredTodos(data) == Call("setFilteredTodos", FALSE, NULL, data)
setLoading(b) == Call("setLoading", b, NULL, NotArray)
setError(msg) == Call("setError", FALSE, msg, NotArray)

ApplyCall(s, c) ==
  CASE c.setter = "setTodos" -> [s EXCEPT !.todos = c.data]
    [] c.setter = "setFilteredTodos" -> [s EXCEPT !.filteredTodos = c.data]
    [] c.setter = "setLoading" -> [s EXCEPT !.loading = c.flag]
    [] c.setter = "setError" -> [s EXCEPT !.error = c.text]

RECURSIVE ApplyCalls(_, _)
ApplyCalls(s, calls) ==
  IF calls = <<>> THEN s ELSE ApplyCalls(ApplyCall(s, Head(calls)), Tail(calls))

\* A setter of a component that is no longer mounted stores nothing.
Dispatch(calls) ==
  /\ state' = IF alive = "mounted" THEN ApplyCalls(state, calls) ELSE state
  /\ log' = log \o [i \in 1..Len(calls) |-> [call |-> calls[i], live |-> alive = "mounted"]]

\* ---- fetchTodos ------------------------------------------------------
\* line 42, before the first await
fetchTodosBegin == <<setLoading(TRUE)>>

HttpError_withStatus(response) ==
  Err(IF response.status = 404 THEN "HTTP error! Status: 404" ELSE "HTTP error! Status: other")

\* line 46: the Error thrown for a response that is not ok
HttpError(response) == Err("HTTP error! Status: 404")

ThrowsOnStatus_never(response) == FALSE

\* line 45: the body is read only when the status check lets it through
ThrowsOnStatus(response) == ~ok(response)

\* line 52
ErrorText(error) == IF error.isError THEN error.message ELSE "unknown error occurred"

CatchFinally_resetsTodos(error) ==
  <<setTodos(Arr(<<>>)), setError(ErrorText(error)), setLoading(FALSE)>>

CatchFinally_clearsFirst(error) == <<setLoading(FALSE), setError(ErrorText(error))>>

CatchFinally_noFinally(error) == <<setError(ErrorText(error))>>

CatchFinally_clearsView(error) ==
  <<setFilteredTodos(Arr(<<>>)), setError(ErrorText(error)), setLoading(FALSE)>>

\* lines 51-55: catch, then finally
CatchFinally(error) == <<setError(ErrorText(error)), setLoading(FALSE)>>

PublishFinally_skipsTodos(data) == <<setFilteredTodos(data), setLoading(FALSE)>>

PublishFinally_skipsFiltered(data) == <<setTodos(data), setLoading(FALSE)>>

\* lines 48-50, then finally (lines 53-55)
PublishFinally(data) == <<setTodos(data), setFilteredTodos(data), setLoading(FALSE)>>

\* ---- the filter effect's projection (lines 78-83) --------------------
\* Array.prototype.filter with the callback todo.completed (negate = FALSE)
\* or !todo.completed (negate = TRUE)
RECURSIVE ArrayFilter(_, _)
ArrayFilter(todos, negate) ==
  IF todos = <<>> THEN <<>>
  ELSE LET todo == Head(todos)
           keep == IF negate THEN ~todo.completed ELSE todo.completed
           rest == ArrayFilter(Tail(todos), negate)
       IN IF keep THEN <<todo>> \o rest ELSE rest

project_swapped(todos, filter) ==
  IF filter = "Open" THEN ArrayFilter(todos, FALSE)
  ELSE IF filter = "Completed" THEN ArrayFilter(todos, TRUE)
  ELSE todos

project_allDropsCompleted(todos, filter) ==
  IF filter = "Open" THEN ArrayFilter(todos, TRUE)
  ELSE IF filter = "Completed" THEN ArrayFilter(todos, FALSE)
  ELSE ArrayFilter(todos, TRUE)

project(todos, filter) ==
  IF filter = "Open" THEN ArrayFilter(todos, TRUE)
  ELSE IF filter = "Completed" THEN ArrayFilter(todos, FALSE)
  ELSE todos

InitialState_open ==
  [todos |-> Arr(<<>>), filteredTodos |-> Arr(<<>>), loading |-> FALSE,
   error |-> NULL, filter |-> "Open"]

\* ---- initial state: the first render has committed -------------------
InitialState ==
  [todos |-> Arr(<<>>), filteredTodos |-> Arr(<<>>), loading |-> FALSE,
   error |-> NULL, filter |-> "All"]

NotRecomputed == [ran |-> FALSE, todos |-> <<>>, filter |-> "All", updated |-> <<>>]

Init ==
  /\ state = InitialState
  /\ view = InitialState
  /\ effects = {"mount", "filter"}
  /\ alive = "mounted"
  /\ pc = "idle"
  /\ net = Pending
  /\ bodyRead = FALSE
  /\ log = <<>>
  /\ recomputed = NotRecomputed
  /\ selectCalls = <<>>

\* ---- effects ---------------------------------------------------------
\* lines 77-85, run with the todos and filter of the render that scheduled it
filterEffectCall == setFilteredTodos(Arr(project(view.todos.items, view.filter)))

filterEffectRecord ==
  [ran |-> TRUE, todos |-> view.todos.items, filter |-> view.filter,
   updated |-> project(view.todos.items, view.filter)]

\* The effects of the first commit: the mount effect (lines 73-75) calls
\* fetchTodos, which runs up to its first await; then the filter effect.
MountEffects ==
  /\ alive = "mounted"
  /\ "mount" \in effects
  /\ state' = ApplyCalls(state,
       fetchTodosBegin \o (IF "filter" \in effects THEN <<filterEffectCall>> ELSE <<>>))
  /\ log' = [i \in 1..Len(fetchTodosBegin) |-> [call |-> fetchTodosBegin[i], live |-> TRUE]]
  /\ recomputed' = IF "filter" \in effects THEN filterEffectRecord ELSE recomputed
  /\ pc' = "awaitFetch"
  /\ effects' = {}
  /\ UNCHANGED <<view, alive, net, bodyRead, selectCalls>>

\* The filter effect of a later commit whose todos or filter changed.
FilterEffect ==
  /\ alive = "mounted"
  /\ effects = {"filter"}
  /\ state' = ApplyCall(state, filterEffectCall)
  /\ recomputed' = filterEffectRecord
  /\ effects' = {}
  /\ UNCHANGED <<view, alive, pc, net, bodyRead, log, selectCalls>>

\* ---- render (lines 66-141) -------------------------------------------
\* filteredTodos.map (line 128) throws when the slot holds no array; with
\* no error boundary React then removes the component.
RenderThrows(s) == ~s.filteredTodos.isArray

FilterDepsChanged_filterOnly(old, new) == old.filter # new.filter

\* dependency list of the filter effect (line 85)
FilterDepsChanged(old, new) == old.filter # new.filter \/ old.todos # new.todos

MountDepsChanged_everyRender(old, new) == TRUE

\* dependency list of the mount effect (line 75): empty, so never changed
MountDepsChanged(old, new) == FALSE

Render ==
  /\ alive = "mounted"
  /\ effects = {}
  /\ state # view
  /\ IF RenderThrows(state)
       THEN /\ alive' = "crashed"
            /\ UNCHANGED <<view, effects>>
       ELSE /\ view' = state
            /\ effects' = (IF FilterDepsChanged(view, state) THEN {"filter"} ELSE {})
                             \cup (IF MountDepsChanged(view, state) THEN {"mount"} ELSE {})
            /\ UNCHANGED alive
  /\ UNCHANGED <<state, pc, net, bodyRead, log, recomputed, selectCalls>>

\* ---- user events -----------------------------------------------------
\* lines 102, 110, 118
setFilter(mode) ==
  /\ alive = "mounted"
  /\ state' = [state EXCEPT !.filter = mode]
  /\ UNCHANGED <<view, effects, alive, pc, net, bodyRead, log, recomputed, selectCalls>>

clickTodo_twice(todo) == <<todo.id, todo.id>>

\* line 130: the onSelectTodo calls the click handler of one entry makes
clickTodo(todo) == <<todo.id>>

\* line 130: a click on the i-th entry of the rendered list
onSelectTodo(i) ==
  /\ alive = "mounted"
  /\ i \in 1..Len(view.filteredTodos.items)
  /\ Len(selectCalls) < MaxSelect
  /\ selectCalls' = selectCalls \o clickTodo(view.filteredTodos.items[i])
  /\ UNCHANGED <<state, view, effects, alive, pc, net, bodyRead, log, recomputed>>

\* The owner removes the component; React flushes pending effects first.
Unmount ==
  /\ alive = "mounted"
  /\ effects = {}
  /\ alive' = "unmounted"
  /\ UNCHANGED <<state, view, effects, pc, net, bodyRead, log, recomputed, selectCalls>>

\* ---- the network settles ---------------------------------------------
\* line 44 resumes: rejection -> catch; not ok -> throw -> catch; ok -> json()
FetchSettles(outcome) ==
  /\ pc = "awaitFetch"
  /\ net' = outcome
  /\ IF outcome.kind = "rejected"
       THEN /\ Dispatch(CatchFinally(outcome.thrown))
            /\ pc' = "done"
            /\ UNCHANGED bodyRead
       ELSE IF ThrowsOnStatus(outcome)
         THEN /\ Dispatch(CatchFinally(HttpError(outcome)))
              /\ pc' = "done"
              /\ UNCHANGED bodyRead
         ELSE /\ bodyRead' = TRUE
              /\ pc' = "awaitJson"
              /\ UNCHANGED <<state, log>>
  /\ UNCHANGED <<view, effects, alive, recomputed, selectCalls>>

\* line 48 resumes: the parsed value is published as it is; a rejection -> catch
JsonSettles ==
  /\ pc = "awaitJson"
  /\ IF net.body.parses
       THEN Dispatch(PublishFinally(net.body.value))
       ELSE Dispatch(CatchFinally(net.body.thrown))
  /\ pc' = "done"
  /\ UNCHANGED <<view, effects, alive, net, bodyRead, recomputed, selectCalls>>

Next ==
  \/ MountEffects
  \/ FilterEffect
  \/ Render
  \/ \E mode \in Filters : setFilter(mode)
  \/ \E i \in 1..MaxLen : onSelectTodo(i)
  \/ Unmount
  \/ \E outcome \in FetchOutcomes : FetchSettles(outcome)
  \/ JsonSettles

Spec == Init /\ [][Next]_vars

\* ---- vocabulary of the properties ------------------------------------
Calls(setter) == {i \in 1..Len(log) : log[i].call.setter = setter}
LoadingCalls(b) == {i \in Calls("setLoading") : log[i].call.flag = b}

\* every setter call of the invocation reached a mounted component
AllLive == \A i \in 1..Len(log) : log[i].live

InFlight == pc \in {"awaitFetch", "awaitJson"}
Settled == pc = "done"
StatusFailure == net.kind = "response" /\ ~ok(net)
ParseFailure == net.kind = "response" /\ ok(net) /\ ~net.body.parses
NonArrayBody == net.kind = "response" /\ ok(net) /\ net.body.parses /\ ~net.body.value.isArray
Failed == net.kind = "rejected" \/ StatusFailure \/ ParseFailure
NonEmptyMessage(e) == e # NULL /\ e # ""

\* C1: every rendered state shows a filtered view equal to
\* project(raw collection, filter mode) of that same render.
C1_RenderedViewConsistent ==
  view.filteredTodos.items = project(view.todos.items, view.filter)

\* C2: when the component is unmounted while the fetch is in flight, the
\* late result makes no setter call: no call reaches a dead component.
C2_LateResultDiscarded == AllLive

\* C3: once fetchTodos has settled, either the raw collection was written
\* with the fetched value and there is no error, or there is an error and
\* the raw collection was not written and still has its earlier value.
C3_ExclusiveOutcomes ==
  (Settled /\ AllLive) =>
    \/ /\ Calls("setTodos") # {}
       /\ net.kind = "response" /\ state.todos = net.body.value
       /\ state.error = NULL
    \/ /\ Calls("setTodos") = {}
       /\ state.todos = InitialState.todos
       /\ state.error # NULL

C3_Witness ==
  /\ Settled /\ AllLive
  /\ Calls("setTodos") # {}
  /\ state.todos.isArray /\ Len(state.todos.items) >= 1
  /\ state.error = NULL

\* C4: per invocation, setLoading(true) is the first call and is made once,
\* setLoading(false) is made once, as the last call, and only when the
\* invocation settles; setTodos and setError are each called at most once.
C4_WriteOrdering ==
  /\ pc # "idle" => (Len(log) >= 1 /\ LoadingCalls(TRUE) = {1})
  /\ Cardinality(Calls("setTodos")) <= 1
  /\ Cardinality(Calls("setError")) <= 1
  /\ InFlight => LoadingCalls(FALSE) = {}
  /\ Settled => LoadingCalls(FALSE) = {Len(log)}

C4_Witness ==
  /\ Settled /\ ParseFailure
  /\ Calls("setError") # {}
  /\ \A i \in Calls("setError") : i < Len(log)

\* C5: the loading flag is true while the invocation is in flight, is
\* cleared by its last call, and after settlement an error is never
\* present together with loading = true.
C5_LoadingInvariant ==
  AllLive =>
    /\ InFlight => state.loading
    /\ Settled => /\ ~state.loading
                  /\ log[Len(log)].call = setLoading(FALSE)
                  /\ ~(state.error # NULL /\ state.loading)

C5_Witness == Settled /\ AllLive /\ Failed /\ state.error # NULL /\ ~state.loading

\* C6: a success status whose body does not decode into an array of task
\* records (unparseable, or a JSON value that is no array) ends with a
\* non-empty error message and the raw collection still empty.
C6_UndecodableBodyIsFailure ==
  (Settled /\ AllLive /\ (ParseFailure \/ NonArrayBody)) =>
    /\ NonEmptyMessage(state.error)
    /\ state.todos = Arr(<<>>)

\* C7: every failure path (rejected request, non-success status, parse
\* failure; whatever was thrown) ends with a non-empty error message.
C7_FailureLeavesMessage ==
  (Settled /\ AllLive /\ Failed) => NonEmptyMessage(state.error)

\* C8: the first effect of an invocation sets loading = true and
\* error = absent, before the network read is awaited.
C8_InvocationClearsError ==
  pc # "idle" =>
    /\ Len(log) >= 2
    /\ {log[1].call, log[2].call} = {setLoading(TRUE), setError(NULL)}

\* C9: a response with a non-success status is a failure whose body is
\* never read: no setTodos or setFilteredTodos call is made, the error
\* message is non-empty, both collections stay empty and loading ends false.
C9_StatusFailureSkipsBody ==
  (Settled /\ StatusFailure) =>
    /\ ~bodyRead
    /\ Calls("setTodos") = {} /\ Calls("setFilteredTodos") = {}
    /\ AllLive => /\ NonEmptyMessage(state.error)
                  /\ state.todos = Arr(<<>>)
                  /\ state.filteredTodos = Arr(<<>>)
                  /\ ~state.loading

C9_Witness ==
  /\ Settled /\ StatusFailure /\ AllLive
  /\ net.status = 404
  /\ net.body.parses /\ net.body.value.isArray /\ Len(net.body.value.items) >= 1

\* C10: the filtered view the filter effect computes from a raw collection
\* R and mode M is R itself for All, exactly R's records with completed =
\* false, in R's order, for Open, and exactly those with completed = TRUE,
\* in R's order, for Completed; no position of R is in both the Open and
\* the Completed result and every position is in one of them.
IsOpen(todo) == ~todo.completed
IsCompleted(todo) == todo.completed

\* s is t restricted to the positions in idx, in t's order
IsRestriction(s, t, idx) ==
  /\ Len(s) = Cardinality(idx)
  /\ \A i \in idx : s[Cardinality({j \in idx : j <= i})] = t[i]

C10_FilterCorrect ==
  recomputed.ran =>
    LET R == recomputed.todos
        open == {i \in 1..Len(R) : ~R[i].completed}
        completed == {i \in 1..Len(R) : R[i].completed}
    IN /\ recomputed.filter = "All" => recomputed.updated = R
       /\ recomputed.filter = "Open" =>
            /\ recomputed.updated = SelectSeq(R, IsOpen)
            /\ IsRestriction(recomputed.updated, R, open)
       /\ recomputed.filter = "Completed" =>
            /\ recomputed.updated = SelectSeq(R, IsCompleted)
            /\ IsRestriction(recomputed.updated, R, completed)
       /\ IsRestriction(project(R, "Open"), R, open)
       /\ IsRestriction(project(R, "Completed"), R, completed)
       /\ open \cap completed = {} /\ open \cup completed = 1..Len(R)
       /\ Len(project(R, "Open")) + Len(project(R, "Completed")) = Len(R)
       /\ project(R, "All") = R

C10_Witness ==
  /\ recomputed.ran
  /\ recomputed.filter = "Open"
  /\ Len(recomputed.todos) = 2
  /\ recomputed.todos[1].completed /\ ~recomputed.todos[2].completed
  /\ recomputed.updated = <<recomputed.todos[2]>>
  /\ state.filteredTodos.items = recomputed.updated

\* s is t with some positions left out, the others in t's order
RECURSIVE IsSubsequence(_, _)
IsSubsequence(s, t) ==
  IF s = <<>> THEN TRUE
  ELSE IF t = <<>> THEN FALSE
  ELSE IF Head(s) = Head(t) THEN IsSubsequence(Tail(s), Tail(t))
  ELSE IsSubsequence(s, Tail(t))

SubsequenceSlots(s) ==
  s.todos.isArray =>
    /\ s.filteredTodos.isArray
    /\ IsSubsequence(s.filteredTodos.items, s.todos.items)

\* C11: in every reachable state, stored or rendered, also between a filter
\* change or a fetch success and the recomputation that follows it, the
\* filtered view is an order-preserving subsequence of the raw collection
\* (whenever the raw collection holds an array).
C11_ViewIsSubsequence == SubsequenceSlots(state) /\ SubsequenceSlots(view)

C11_Witness ==
  /\ Settled /\ AllLive
  /\ state.filter = "Open"
  /\ Len(state.todos.items) = 2
  /\ state.todos.items[1].completed
  /\ state.filteredTodos = state.todos
  /\ state # view

\* C12: the step in which a successful fetch is published stores the parsed
\* value, unchanged and in arrival order, in both the raw collection and the
\* filtered view, whatever the filter mode is; setFilteredTodos(data)
\* directly follows setTodos(data).
C12_PublishesBothInOneStep ==
  [][(pc = "awaitJson" /\ pc' = "done" /\ net.body.parses) =>
       /\ \E i \in 1..Len(log') - 1 :
            /\ log'[i].call = setTodos(net.body.value)
            /\ log'[i + 1].call = setFilteredTodos(net.body.value)
       /\ alive = "mounted" =>
            /\ state'.todos = net.body.value
            /\ state'.filteredTodos = net.body.value
            /\ state'.filter = state.filter]_vars

C12_Witness ==
  /\ Settled /\ AllLive /\ net.kind = "response" /\ net.body.parses
  /\ state.filter = "Completed"
  /\ state.todos = net.body.value
  /\ state.filteredTodos = net.body.value
  /\ Len(state.todos.items) = 2
  /\ ~state.todos.items[1].completed /\ state.todos.items[2].completed

\* C13: fetchTodos is invoked once per mount, by the effects of the first
\* commit: an invocation starts only from the idle position, never starts
\* again, and once it has settled its outcome and its setter calls stay as
\* they are, whatever filter change, selection, render or failure follows.
C13_InvokedOnce ==
  [][/\ (pc' = "awaitFetch" /\ pc # "awaitFetch") =>
          (pc = "idle" /\ effects = {"mount", "filter"} /\ view = InitialState)
     /\ pc # "idle" => pc' # "idle"
     /\ (pc # "idle" /\ pc' # "idle") => LoadingCalls(TRUE)' = {1}
     /\ pc = "done" => (pc' = "done" /\ log' = log /\ net' = net /\ bodyRead' = bodyRead)]_vars

C13_Witness ==
  /\ Settled /\ Failed
  /\ alive = "mounted" /\ state = view /\ effects = {}
  /\ state.filter = "Completed"
  /\ recomputed.filter = "Completed"
  /\ Cardinality(LoadingCalls(TRUE)) = 1
  /\ Cardinality(Calls("setError")) = 1

\* C14: a click on a record of the rendered list calls onSelectTodo exactly
\* once, with that record's id, and changes nothing else: filter mode, raw
\* collection, filtered view, loading flag and error message stay as they are.
C14_SelectionOnlyNotifies ==
  [][selectCalls' # selectCalls =>
       /\ \E i \in 1..Len(view.filteredTodos.items) :
            selectCalls' = Append(selectCalls, view.filteredTodos.items[i].id)
       /\ UNCHANGED <<state, view, effects, alive, pc, net, bodyRead, log, recomputed>>]_vars

C14_Witness ==
  /\ selectCalls # <<>>
  /\ state.filter = "Completed" /\ view.filter = "Completed"
  /\ state.todos.isArray /\ Len(state.todos.items) = 2
  /\ Len(view.filteredTodos.items) = 1
  /\ view.filteredTodos.items[1].completed
  /\ selectCalls = <<view.filteredTodos.items[1].id>>

\* C15: the filter mode is All at mount, and a step that changes it is a
\* filter-button click that changes nothing else; starting a fetch, a fetch
\* success or failure, a recomputation, a render and a selection leave it.
C15_FilterOnlyByUser ==
  /\ state.filter = "All" /\ view.filter = "All"
  /\ [][/\ state'.filter # state.filter =>
             /\ alive = "mounted"
             /\ state'.filter \in Filters
             /\ state' = [state EXCEPT !.filter = state'.filter]
             /\ UNCHANGED <<view, effects, alive, pc, net, bodyRead, log, recomputed,
                            selectCalls>>
        /\ (pc' # pc \/ log' # log \/ recomputed' # recomputed \/ selectCalls' # selectCalls
              \/ view' # view) => state'.filter = state.filter]_vars

C15_Witness ==
  /\ Settled /\ AllLive /\ Calls("setTodos") # {}
  /\ state.filter = "Open" /\ view.filter = "Open"
  /\ recomputed.ran /\ recomputed.filter = "Open"
  /\ selectCalls # <<>>

\* C16: for the raw collection R and every mode M,
\* project(project(R, All), M) = project(R, M).
C16_AllThenMode ==
  state.todos.isArray =>
    \A M \in Filters :
      project(project(state.todos.items, "All"), M) = project(state.todos.items, M)

C16_Witness ==
  /\ recomputed.ran /\ recomputed.filter = "Completed"
  /\ recomputed.todos = state.todos.items
  /\ Len(state.todos.items) = 2
  /\ state.todos.items[1].completed /\ ~state.todos.items[2].completed
  /\ Len(recomputed.updated) = 1

\* C17: once the fetch has settled and nothing is pending (the stored slots
\* are rendered and no effect waits), the filtered view equals
\* project(raw collection, current filter mode), however the filter clicks
\* interleaved with the fetch.
Quiescent == Settled /\ AllLive /\ state = view /\ effects = {}

C17_SettledViewConsistent ==
  Quiescent => state.filteredTodos.items = project(state.todos.items, state.filter)

C17_Witness ==
  /\ Quiescent
  /\ state.filter = "Open"
  /\ Len(state.todos.items) = 2
  /\ ~state.todos.items[1].completed /\ state.todos.items[2].completed
  /\ state.filteredTodos.items = <<state.todos.items[1]>>

\* C18: on every failure path fetchTodos calls neither setTodos nor
\* setFilteredTodos: it calls only setLoading and setError, and the raw
\* collection and the filtered view keep the value they had before.
C18_FailureWritesOnlyErrorAndLoading ==
  (Settled /\ Failed) =>
    /\ \A i \in 1..Len(log) : log[i].call.setter \in {"setLoading", "setError"}
    /\ AllLive => /\ state.todos = InitialState.todos
                  /\ state.filteredTodos = InitialState.filteredTodos

C18_Witness ==
  /\ Settled /\ AllLive
  /\ net.kind = "rejected" /\ net.thrown = NonError
  /\ state.error = "unknown error occurred"
  /\ state.todos = Arr(<<>>) /\ state.filteredTodos = Arr(<<>>)

\* C19: the message published for a non-success response is the same text
\* for every non-success status: it does not tell which status was received.
C19_MessageIgnoresStatus ==
  (Settled /\ StatusFailure) =>
    /\ Calls("setError") # {}
    /\ \A i \in Calls("setError") :
         \A status \in {st \in Statuses : ~ok([status |-> st])} :
           log[i].call.text = ErrorText(HttpError([net EXCEPT !.status = status]))

C19_Witness ==
  /\ Settled /\ StatusFailure /\ AllLive
  /\ net.status = 500
  /\ state.error = "HTTP error! Status: 404"

====
